---- MODULE Spec2Model ----
(***************************************************************************)
(* butter-assemble: the material pipeline of src/index.js (getName,        *)
(* parseMaterials, setup, handleError, module.exports) and the dependency  *)
(* tracker of src/lib/butter-dna/index.js (scan, scanFile).                *)
(*                                                                         *)
(* Strings are sequences of one-character strings, so that the regular     *)
(* expressions of the source are computed character by character.  A file  *)
(* path is the string the glob returns, with "/" as the separator.  A      *)
(* JavaScript object is an association list (a sequence of [k, v] pairs)   *)
(* kept in insertion order.                                                *)
(***************************************************************************)
EXTENDS Integers, Sequences, FiniteSets, TLC

VARIABLES
    call,          \* the last call of a pure function: its name and arguments
    ret,           \* the value that call returned
    pc,            \* where module.exports is: idle, stub, populate, sort, ...
    options,       \* the merged options of the run (onError, logErrors)
    files,         \* the material files of the run, in the order the glob gave
    i,             \* the index of the file the current pass is at
    materials,     \* assembly.materials
    materialData,  \* assembly.materialData
    partials,      \* Handlebars.partials
    rendered,      \* whether assemble() wrote the views of the current run
    runs           \* the number of calls of module.exports so far

vars == <<call, ret, pc, options, files, i, materials, materialData, partials,
          rendered, runs>>

----------------------------------------------------------------------------
(* Strings *)

\* The longest file name the getName specification draws.
MaxNameLen == 3

\* The most tokens a content of the rewrite specification is made of.
MaxTokens == 3
MaxRuns == 2
MaxElements == 2
MaxFiles == 3
MaxParts == 2

\* The characters the model uses, in the order of their character codes.
Ascii == <<"\n", " ", "\"", "#", "'", "-", ".", "/", "0", "1", "2", "<", "=", ">",
           "A", "B", "C", "D", "E", "F", "G", "H", "I", "J", "K", "L", "M",
           "N", "O", "P", "Q", "R", "S", "T", "U", "V", "W", "X", "Y", "Z", "_",
           "a", "b", "c", "d", "e", "f", "g", "h", "i", "j", "k", "l", "m",
           "n", "o", "p", "q", "r", "s", "t", "u", "v", "w", "x", "y", "z",
           "{", "|", "}">>

Code(c) == CHOOSE n \in 1..Len(Ascii) : Ascii[n] = c

Lower == <<"a", "b", "c", "d", "e", "f", "g", "h", "i", "j", "k", "l", "m",
           "n", "o", "p", "q", "r", "s", "t", "u", "v", "w", "x", "y", "z">>
Upper == <<"A", "B", "C", "D", "E", "F", "G", "H", "I", "J", "K", "L", "M",
           "N", "O", "P", "Q", "R", "S", "T", "U", "V", "W", "X", "Y", "Z">>

toUpperCase(c) ==
    IF \E n \in 1..Len(Lower) : Lower[n] = c
    THEN Upper[CHOOSE n \in 1..Len(Lower) : Lower[n] = c]
    ELSE c

toLowerCase(c) ==
    IF \E n \in 1..Len(Upper) : Upper[n] = c
    THEN Lower[CHOOSE n \in 1..Len(Upper) : Upper[n] = c]
    ELSE c

Digits == {"0", "1", "2"}
Spaces == {" ", "\n"}
\* \w of a regular expression: a letter, a digit or "_".
WordChars == {Ascii[n] : n \in 1..Len(Ascii)}
             \ ({"\"", "#", "'", "-", ".", "/", "<", "=", ">", "{", "|", "}"} \cup Spaces)

\* a < b as JavaScript compares strings: by character code, a prefix first.
RECURSIVE StrLess(_, _)
StrLess(a, b) ==
    IF b = <<>> THEN FALSE
    ELSE IF a = <<>> THEN TRUE
    ELSE IF a[1] # b[1] THEN Code(a[1]) < Code(b[1])
    ELSE StrLess(Tail(a), Tail(b))

Drop(s, n) == SubSeq(s, n + 1, Len(s))
Take(s, n) == SubSeq(s, 1, n)

StartsWith(s, p) == Len(p) <= Len(s) /\ Take(s, Len(p)) = p

\* The index of the last c in s, 0 when there is none.
LastIndexOf(s, c) ==
    IF \E n \in 1..Len(s) : s[n] = c
    THEN CHOOSE n \in 1..Len(s) : s[n] = c /\ \A m \in (n + 1)..Len(s) : s[m] # c
    ELSE 0

\* The index of the first c in s at or after from, 0 when there is none.
IndexFrom(s, c, from) ==
    IF \E n \in from..Len(s) : s[n] = c
    THEN CHOOSE n \in from..Len(s) : s[n] = c /\ \A m \in from..(n - 1) : s[m] # c
    ELSE 0

\* s.split(sep) for a one-character separator.
RECURSIVE Split(_, _)
Split(s, sep) ==
    LET n == IndexFrom(s, sep, 1)
    IN  IF n = 0 THEN <<s>> ELSE <<Take(s, n - 1)>> \o Split(Drop(s, n), sep)

RECURSIVE Join(_, _)
Join(parts, sep) ==
    IF parts = <<>> THEN <<>>
    ELSE IF Len(parts) = 1 THEN parts[1]
    ELSE parts[1] \o <<sep>> \o Join(Tail(parts), sep)

\* s.replace(/[class]/g, with): every character of class becomes with.
ReplaceAll(s, class, with) == [n \in 1..Len(s) |-> IF s[n] \in class THEN with ELSE s[n]]

\* The sequences over alphabet of length at most n.
RECURSIVE StringsUpTo(_, _)
StringsUpTo(alphabet, n) ==
    IF n = 0 THEN {<<>>}
    ELSE LET shorter == StringsUpTo(alphabet, n - 1)
         IN  shorter \cup {<<c>> \o s : c \in alphabet, s \in {t \in shorter : Len(t) = n - 1}}

----------------------------------------------------------------------------
(* path.basename, path.extname, path.dirname *)

basename(p) == Drop(p, LastIndexOf(p, "/"))

dirname(p) ==
    LET n == LastIndexOf(p, "/")
    IN  IF n = 0 THEN <<".">> ELSE IF n = 1 THEN <<"/">> ELSE Take(p, n - 1)

\* The extension: from the last "." of the base name, none when that "." is
\* its first character or the base name is "..".
extname(p) ==
    LET b == basename(p)
        n == LastIndexOf(b, ".")
    IN  IF n <= 1 \/ b = <<".", ".">> THEN <<>> ELSE Drop(b, n - 1)

\* path.basename(p, ext)
basenameExt(p, ext) ==
    LET b == basename(p)
    IN  IF ext # <<>> /\ Len(ext) <= Len(b) /\ Drop(b, Len(b) - Len(ext)) = ext
        THEN Take(b, Len(b) - Len(ext))
        ELSE b

----------------------------------------------------------------------------
(* getName *)

\* The class of /^[0-9|\.\-]+/ : a digit, "|", "." or "-".
NameClass == Digits \cup {"|", ".", "-"}

\* s.replace(/^[class]+/, '')
RECURSIVE StripLeading(_, _)
StripLeading(s, class) ==
    IF s # <<>> /\ s[1] \in class THEN StripLeading(Tail(s), class) ELSE s

getName(filePath, preserveNumbers) ==
    LET name == ReplaceAll(basenameExt(filePath, extname(filePath)), Spaces, "-")
    IN  IF preserveNumbers THEN name ELSE StripLeading(name, NameClass)

\* 'btr-' + HMAC-SHA256('serial', id) in hex: an injective tag of the id.
getSerial(id) == [btr |-> id]

\* str.replace(/(\-|_)/g, ' ').replace(/\w\S*/g, capitalise): the first
\* character of every word in upper case and the rest of it in lower case.
toTitleCase(str) ==
    LET spaced == ReplaceAll(str, {"-", "_"}, " ")
        \* n starts a word: a word character not inside a word already begun.
        RECURSIVE InWord(_)
        InWord(n) == /\ n >= 1
                     /\ spaced[n] \notin Spaces
                     /\ (spaced[n] \in WordChars \/ InWord(n - 1))
        Starts(n) == spaced[n] \in WordChars /\ ~InWord(n - 1)
    IN  [n \in 1..Len(spaced) |->
            IF Starts(n) THEN toUpperCase(spaced[n])
            ELSE IF InWord(n) THEN toLowerCase(spaced[n])
            ELSE spaced[n]]

----------------------------------------------------------------------------
(* JavaScript objects: association lists in insertion order *)

Has(obj, k) == \E n \in 1..Len(obj) : obj[n].k = k

Get(obj, k) == obj[CHOOSE n \in 1..Len(obj) : obj[n].k = k].v

\* obj[k] = v : an existing key keeps its place, a new key goes last.
Put(obj, k, v) ==
    IF Has(obj, k)
    THEN [n \in 1..Len(obj) |-> IF obj[n].k = k THEN [k |-> k, v |-> v] ELSE obj[n]]
    ELSE Append(obj, [k |-> k, v |-> v])

\* delete obj[k]
RECURSIVE Del(_, _)
Del(obj, k) ==
    IF obj = <<>> THEN <<>>
    ELSE IF obj[1].k = k THEN Del(Tail(obj), k)
    ELSE <<obj[1]>> \o Del(Tail(obj), k)

Keys(obj) == [n \in 1..Len(obj) |-> obj[n].k]

KeySet(obj) == {obj[n].k : n \in 1..Len(obj)}

\* _.omit(obj, k)
omit(obj, k) == Del(obj, k)

\* The object as it is: what the sort would leave were it not made.
sortObjNone(obj) == obj

\* sortObj(obj, 'order'): a string is no option of sort-object, which then
\* returns the object with its keys in ascending order ("sort materials
\* object alphabetically").
sortObj(obj) ==
    LET rank(k) == 1 + Cardinality({k2 \in KeySet(obj) : StrLess(k2, k)})
    IN  [n \in 1..Len(obj) |->
            LET k == CHOOSE k2 \in KeySet(obj) : rank(k2) = n
            IN  [k |-> k, v |-> Get(obj, k)]]

\* _.uniq(list): the first occurrence of each value, in order.
RECURSIVE uniq(_)
uniq(list) ==
    IF list = <<>> THEN <<>>
    ELSE LET init == uniq(Take(list, Len(list) - 1))
             last == list[Len(list)]
         IN  IF \E n \in 1..Len(init) : init[n] = last THEN init ELSE Append(init, last)

\* _.compact(list) of strings: the empty strings removed.
RECURSIVE compact(_)
compact(list) ==
    IF list = <<>> THEN <<>>
    ELSE IF list[1] = <<>> THEN compact(Tail(list))
    ELSE <<list[1]>> \o compact(Tail(list))

\* _.intersection(list, props): the unique values of list that props holds.
RECURSIVE Filter(_, _)
Filter(list, props) ==
    IF list = <<>> THEN <<>>
    ELSE IF \E n \in 1..Len(props) : props[n] = list[1]
         THEN <<list[1]>> \o Filter(Tail(list), props)
         ELSE Filter(Tail(list), props)

intersection(list, props) == uniq(Filter(list, props))

----------------------------------------------------------------------------
(* butter-dna: scanFile *)

\* The characters of ["|'] in the attribute expressions.
Quotes == {"\"", "|", "'"}

\* findTag = /<[^\/].*?>/g : the end of the tag that starts at p, 0 when no
\* tag starts there.  "<", one character that is not "/", and then up to
\* the first ">" after it on the same line ("." matches no line break).
TagEnd(content, p) ==
    IF /\ p + 1 <= Len(content)
       /\ content[p] = "<"
       /\ content[p + 1] # "/"
    THEN LET e == IndexFrom(content, ">", p + 2)
         IN  IF e # 0 /\ \A k \in (p + 2)..(e - 1) : content[k] # "\n" THEN e ELSE 0
    ELSE 0

\* The matches of findTag in content from position p on, left to right,
\* each search starting where the last match ended.
RECURSIVE Elements(_, _)
Elements(content, p) ==
    IF p > Len(content) THEN <<>>
    ELSE LET e == TagEnd(content, p)
         IN  IF e = 0 THEN Elements(content, p + 1)
             ELSE <<SubSeq(content, p, e)>> \o Elements(content, e + 1)

\* Whether /attr["|'](.*?)["|']/i matches element at position n.
AttrAt(element, attr, n) ==
    /\ n + Len(attr) <= Len(element)
    /\ \A k \in 1..Len(attr) : toLowerCase(element[n + k - 1]) = toLowerCase(attr[k])
    /\ element[n + Len(attr)] \in Quotes
    /\ \E m \in (n + Len(attr) + 1)..Len(element) : element[m] \in Quotes

\* (element.match(/attr["|'](.*?)["|']/i) || [, ""])[1] : the text between
\* the quotes of the leftmost match, "" when there is no match.
AttrValue(element, attr) ==
    IF \E n \in 1..Len(element) : AttrAt(element, attr, n)
    THEN LET n == CHOOSE n \in 1..Len(element) :
                      /\ AttrAt(element, attr, n)
                      /\ \A m \in 1..(n - 1) : ~AttrAt(element, attr, m)
             open == n + Len(attr)
             close == CHOOSE m \in (open + 1)..Len(element) :
                          /\ element[m] \in Quotes
                          /\ \A k \in (open + 1)..(m - 1) : element[k] \notin Quotes
         IN  SubSeq(element, open + 1, close - 1)
    ELSE <<>>

\* The literal text of the three attribute expressions.
IdAttr == <<"i", "d", " ", "s", "=">>
DnaAttr == <<"d", "a", "t", "a", "-", "d", "n", "a", "=">>
ClassAttr == <<"c", "l", "a", "s", "s", "=">>

Prefixed(p, list) == [n \in 1..Len(list) |-> p \o list[n]]

\* What one element adds to matches.
ElementMatches(element, props) ==
    LET id == AttrValue(element, IdAttr)
        cmp == AttrValue(element, DnaAttr)
        classes == compact(Split(AttrValue(element, ClassAttr), " "))
    IN  (IF id # <<>> THEN Prefixed(<<"#">>, intersection(<<id>>, props)) ELSE <<>>)
        \o (IF cmp # <<>> THEN Prefixed(DnaAttr, intersection(<<cmp>>, props)) ELSE <<>>)
        \o (IF classes # <<>> THEN Prefixed(<<".">>, intersection(classes, props)) ELSE <<>>)

RECURSIVE AllMatches(_, _)
AllMatches(elements, props) ==
    IF elements = <<>> THEN <<>>
    ELSE ElementMatches(elements[1], props) \o AllMatches(Tail(elements), props)

\* dna.scanFile: the matched tags without duplicates; null is the empty list.
scanFile(content, props) == uniq(AllMatches(Elements(content, 1), props))

----------------------------------------------------------------------------
(* Material files and front matter *)

\* The front-matter keys the source names.
kNotes == <<"n", "o", "t", "e", "s">>
kDna == <<"d", "n", "a">>
kHelix == <<"h", "e", "l", "i", "x">>
kFile == <<"f", "i", "l", "e">>
kDependents == <<"d", "e", "p", "e", "n", "d", "e", "n", "t", "s">>
kDependency == <<"d", "e", "p", "e", "n", "d", "e", "n", "c", "y">>

\* A material file on disk: its path, its front matter (an object; the value
\* of dna is the list of tags, a single tag being the list of that one tag),
\* the content after the front matter, and whether it can be read and its
\* front matter parsed: "ok", "malformed" or "unreadable".
File(path, data, content, state) ==
    [path |-> path, data |-> data, content |-> content, state |-> state]

\* fs.readFileSync(f) throws.
ReadThrows(f) == f.state = "unreadable"

\* matter.read(f) throws: the file cannot be read or its header not parsed.
getMatterThrows(f) == f.state # "ok"

\* The text the tag scan reads.  The front-matter block of a material holds
\* no "<", so the tags of the text are those of the content.
readFileSync(f) == f.content

\* The list with the file itself left in.
withoutNone(list, file) == list

\* _.without(files, file)
RECURSIVE without(_, _)
without(list, file) ==
    IF list = <<>> THEN <<>>
    ELSE IF list[1].path = file.path THEN without(Tail(list), file)
    ELSE <<list[1]>> \o without(Tail(list), file)

----------------------------------------------------------------------------
(* butter-dna: scan *)

\* The dependents pass: every other file whose text matches a tag of props.
RECURSIVE dependentsOf(_, _)
dependentsOf(others, props) ==
    IF others = <<>> THEN <<>>
    ELSE LET m == scanFile(readFileSync(others[1]), props)
         IN  (IF m # <<>> THEN <<[file |-> basename(others[1].path), tags |-> m]>> ELSE <<>>)
             \o dependentsOf(Tail(others), props)

\* The dependency pass: every other file that declares dna and whose tags
\* the text cont of this file matches.
RECURSIVE dependencyOf(_, _)
dependencyOf(others, cont) ==
    IF others = <<>> THEN <<>>
    ELSE LET d == others[1].data
             m == IF Has(d, kDna) THEN scanFile(cont, Get(d, kDna)) ELSE <<>>
         IN  (IF m # <<>> THEN <<[file |-> basename(others[1].path), tags |-> m]>> ELSE <<>>)
             \o dependencyOf(Tail(others), cont)

\* data.helix with the key of the dependents pass set whatever the pass found.
helixOfAlways(file, list, data) ==
    LET others == without(list, file)
        dependents == IF Has(data, kDna) THEN dependentsOf(others, Get(data, kDna)) ELSE <<>>
        dependency == dependencyOf(others, readFileSync(file))
        h1 == Put(<<>>, kDependents, dependents)
    IN  IF dependency # <<>> THEN Put(h1, kDependency, dependency) ELSE h1

\* data.helix once both passes ran.
helixOf(file, list, data) ==
    LET others == without(list, file)
        dependents == IF Has(data, kDna) THEN dependentsOf(others, Get(data, kDna)) ELSE <<>>
        dependency == dependencyOf(others, readFileSync(file))
        h1 == IF dependents # <<>> THEN Put(<<>>, kDependents, dependents) ELSE <<>>
    IN  IF dependency # <<>> THEN Put(h1, kDependency, dependency) ELSE h1

\* dna.scan(file, files, data): the data it returns.
scan(file, list, data) ==
    Put(Put(data, kHelix, helixOf(file, list, data)), kFile, basename(file.path))

\* Only the read of this file throws: the failures of the other files caught.
scanThrowsOwnFile(file, list, data) == ReadThrows(file)

\* dna.scan throws: a read of the dependents pass or of this file fails, or
\* the front matter of another file cannot be read.
scanThrows(file, list, data) ==
    LET others == without(list, file)
    IN  \/ Has(data, kDna) /\ \E n \in 1..Len(others) : ReadThrows(others[n])
        \/ ReadThrows(file)
        \/ \E n \in 1..Len(others) : getMatterThrows(others[n])

\* Whether dna.scan writes its line to the log.
scanLogs(file, list, data) == helixOf(file, list, data) # <<>>

----------------------------------------------------------------------------
(* The placeholder expression of parseMaterials and its replacement *)

\* One atom of a regular expression: the characters it matches and how
\* often: "one", "opt" (x?, greedy) or "lazyplus" (x+?).
Atom(class, q) == [class |-> class, q |-> q]

NoMatch == <<0>>

\* A backtracking match of atoms[k..] in s at pos: the position after each
\* atom on the first path that succeeds, NoMatch when none does.
RECURSIVE MatchAt(_, _, _, _)
MatchAt(atoms, k, s, pos) ==
    IF k > Len(atoms) THEN <<>>
    ELSE
      LET a == atoms[k]
          fits(p) == p <= Len(s) /\ s[p] \in a.class
          taken == MatchAt(atoms, k + 1, s, pos + 1)
          skipped == MatchAt(atoms, k + 1, s, pos)
          RECURSIVE lazy(_)
          lazy(j) == IF ~fits(pos + j - 1) THEN NoMatch
                     ELSE LET r == MatchAt(atoms, k + 1, s, pos + j)
                          IN  IF r # NoMatch THEN <<pos + j>> \o r ELSE lazy(j + 1)
      IN  CASE a.q = "one" ->
                 IF fits(pos) /\ taken # NoMatch THEN <<pos + 1>> \o taken ELSE NoMatch
            [] a.q = "opt" ->
                 IF fits(pos) /\ taken # NoMatch THEN <<pos + 1>> \o taken
                 ELSE IF skipped # NoMatch THEN <<pos>> \o skipped
                 ELSE NoMatch
            [] a.q = "lazyplus" -> lazy(1)

\* The expression with "." let through before the key, as [\s.]? would.
placeholderRegexLoose(key) ==
    <<Atom({"{"}, "one"), Atom({"{"}, "one"), Atom({"#", "/"}, "opt"),
      Atom(Spaces \cup {"."}, "opt")>>
    \o [n \in 1..Len(key) |-> Atom({key[n]}, IF n = Len(key) THEN "lazyplus" ELSE "one")]
    \o <<Atom(Spaces, "opt"), Atom({"}"}, "one"), Atom({"}"}, "one")>>

\* new RegExp('(\\{\\{[#\/]?)(\\s?' + key + '+?\\s?)(\\}\\})', 'g') for a key
\* of literal characters: the last character of the key carries the "+?".
placeholderRegex(key) ==
    <<Atom({"{"}, "one"), Atom({"{"}, "one"), Atom({"#", "/"}, "opt"), Atom(Spaces, "opt")>>
    \o [n \in 1..Len(key) |-> Atom({key[n]}, IF n = Len(key) THEN "lazyplus" ELSE "one")]
    \o <<Atom(Spaces, "opt"), Atom({"}"}, "one"), Atom({"}"}, "one")>>

\* s without its white space: p2.replace(/\s/g, '')
RECURSIVE stripSpaces(_)
stripSpaces(s) ==
    IF s = <<>> THEN <<>>
    ELSE IF s[1] \in Spaces THEN stripSpaces(Tail(s))
    ELSE <<s[1]>> \o stripSpaces(Tail(s))

\* id.replace(/\./g, '-')
namespace(id) == ReplaceAll(id, {"."}, "-")

\* content.replace(regex, (match, p1, p2, p3) => p1 + namespace + '.' + p2 + p3)
\* from position pos on, for one key.
RECURSIVE replaceKey(_, _, _, _)
replaceKey(content, key, id, pos) ==
    IF pos > Len(content) THEN <<>>
    ELSE LET atoms == placeholderRegex(key)
             r == MatchAt(atoms, 1, content, pos)
         IN  IF r = NoMatch
             THEN <<content[pos]>> \o replaceKey(content, key, id, pos + 1)
             ELSE LET e1 == r[3]
                      e2 == r[Len(atoms) - 2]
                      e3 == r[Len(atoms)]
                      p1 == SubSeq(content, pos, e1 - 1)
                      p2 == SubSeq(content, e1, e2 - 1)
                      p3 == SubSeq(content, e2, e3 - 1)
                  IN  p1 \o namespace(id) \o <<".">> \o stripSpaces(p2) \o p3
                      \o replaceKey(content, key, id, e3)

\* _.forEach(localData, ...): one replacement per key, in the order of the keys.
RECURSIVE rewrite(_, _, _)
rewrite(content, keys, id) ==
    IF keys = <<>> THEN content
    ELSE rewrite(replaceKey(content, keys[1], id, 1), Tail(keys), id)

\* content.replace(/^(\s*(\r?\n|\r))+|(\s*(\r?\n|\r))+$/g, ''): the leading
\* white space up to its last line break, and the trailing white space of a
\* content that ends in a line break.
trimBlankLines(content) ==
    LET IsWs(a, b) == \A n \in a..b : content[n] \in Spaces
        lead == IF \E n \in 1..Len(content) : content[n] = "\n" /\ IsWs(1, n)
                THEN CHOOSE n \in 1..Len(content) :
                         /\ content[n] = "\n" /\ IsWs(1, n)
                         /\ \A m \in (n + 1)..Len(content) : ~(content[m] = "\n" /\ IsWs(1, m))
                ELSE 0
        rest == Drop(content, lead)
        RECURSIVE trail(_)
        trail(t) == IF t # <<>> /\ t[Len(t)] \in Spaces THEN trail(Take(t, Len(t) - 1)) ELSE t
    IN  IF rest # <<>> /\ rest[Len(rest)] = "\n" THEN trail(rest) ELSE rest

----------------------------------------------------------------------------
(* parseMaterials *)

\* options.materials: the one pattern 's/m/**/*' below the root 's/m'.
MaterialsRoot == <<"s", "/", "m">>

\* path.normalize(path.dirname(file)).split(path.sep)
dirParts(file) == Split(dirname(file.path), "/")

\* .slice(-2, -1)[0] and .pop() of the parts: the grandparent and the parent
\* directory of the file.
parentDir(file) == dirParts(file)[Len(dirParts(file)) - 1]
collectionDir(file) == dirParts(file)[Len(dirParts(file))]

\* globby.sync(dirsGlob).map(...): dirsGlob is 's/m/**/*/', which matches
\* every directory below the root; dirs holds the name of each of them.
dirsOf(list) ==
    LET depth == Len(Split(MaterialsRoot, "/"))
    IN  UNION {{dirParts(list[n])[d] : d \in (depth + 1)..Len(dirParts(list[n]))} :
               n \in 1..Len(list)}

\* The stub of a collection or sub-collection.
stub(dir) == [name |-> toTitleCase(getName(dir, FALSE)), items |-> <<>>]

IsGroup(v) == "items" \in DOMAIN v

\* isSubCollection as the first forEach computes it: from the name getName
\* gives the grandparent directory.
isSubCollectionStub(file, dirs) == getName(parentDir(file), TRUE) \in dirs

\* The body of the first forEach of parseMaterials for one file.
stubOne(mats, file, dirs) ==
    LET parent == getName(parentDir(file), TRUE)
        collection == getName(collectionDir(file), TRUE)
        isSubCollection == isSubCollectionStub(file, dirs)
        materialBase == IF isSubCollection THEN parent ELSE collection
        m1 == IF Has(mats, materialBase) THEN mats
              ELSE Put(mats, materialBase, stub(materialBase))
        top == Get(m1, parent)
    IN  IF isSubCollection /\ ~Has(top.items, collection)
        THEN Put(m1, parent, [top EXCEPT !.items = Put(top.items, collection, stub(collection))])
        ELSE m1

RECURSIVE stubAll(_, _, _)
stubAll(mats, list, dirs) ==
    IF list = <<>> THEN mats
    ELSE stubAll(stubOne(mats, list[1], dirs), Tail(list), dirs)

\* md.render(notes) of a one-paragraph note.
mdRender(notes) == <<"<", "p", ">">> \o notes \o <<"<", "/", "p", ">", "\n">>

\* The values the second forEach of parseMaterials computes for one file.
isSubCollectionOf(file, dirs) == parentDir(file) \in dirs

idOf(file, dirs) ==
    LET collection == getName(collectionDir(file), TRUE)
    IN  IF isSubCollectionOf(file, dirs)
        THEN getName(collection, FALSE) \o <<".">> \o getName(file.path, FALSE)
        ELSE getName(file.path, FALSE)

keyOf(file, dirs) ==
    LET collection == getName(collectionDir(file), TRUE)
    IN  IF isSubCollectionOf(file, dirs)
        THEN collection \o <<".">> \o getName(file.path, TRUE)
        ELSE getName(file.path, TRUE)

localDataOf(file, list) == scan(file, list, omit(file.data, kNotes))

contentOf(file, list, dirs) ==
    rewrite(trimBlankLines(file.content), Keys(localDataOf(file, list)), idOf(file, dirs))

\* The name a partial is registered under: the id without a leading '__'.
partialName(id) == IF StartsWith(id, <<"_", "_">>) THEN Drop(id, 2) ELSE id

leaf(file, list, dirs) ==
    LET id == idOf(file, dirs)
    IN  [name |-> IF isSubCollectionOf(file, dirs)
                  THEN toTitleCase(Split(id, ".")[2])
                  ELSE toTitleCase(id),
         serial |-> getSerial(id),
         notes |-> IF Has(file.data, kNotes) /\ Get(file.data, kNotes) # <<>>
                   THEN mdRender(Get(file.data, kNotes)) ELSE <<>>,
         data |-> localDataOf(file, list)]

\* The second forEach throws at this file: its front matter cannot be read,
\* the scan throws, or the group the leaf is to be written into is missing.
populateThrows(mats, file, list, dirs) ==
    LET collection == getName(collectionDir(file), TRUE)
        parent == parentDir(file)
    IN  \/ getMatterThrows(file)
        \/ scanThrows(file, list, omit(file.data, kNotes))
        \/ ~isSubCollectionOf(file, dirs) /\ ~Has(mats, collection)
        \/ /\ isSubCollectionOf(file, dirs)
           /\ \/ ~Has(mats, parent)
              \/ ~Has(Get(mats, parent).items, collection)
              \/ ~IsGroup(Get(Get(mats, parent).items, collection))

\* assembly.materials once the leaf of the file is written.
placeLeaf(mats, file, list, dirs) ==
    LET collection == getName(collectionDir(file), TRUE)
        parent == parentDir(file)
        key == keyOf(file, dirs)
    IN  IF ~isSubCollectionOf(file, dirs)
        THEN LET top == Get(mats, collection)
             IN  Put(mats, collection,
                     [top EXCEPT !.items = Put(top.items, key, leaf(file, list, dirs))])
        ELSE LET top == Get(mats, parent)
                 sub == Get(top.items, collection)
             IN  Put(mats, parent,
                     [top EXCEPT !.items =
                         Put(top.items, collection,
                             [sub EXCEPT !.items = Put(sub.items, key, leaf(file, list, dirs))])])

\* The assignment made only when the id has no data yet.
storeMaterialDataOnce(data, id, localData) ==
    IF Has(data, namespace(id)) THEN data ELSE Put(data, namespace(id), localData)

\* assembly.materialData[id.replace(/\./g, '-')] = localData
storeMaterialData(data, id, localData) == Put(data, namespace(id), localData)

\* Handlebars.registerPartial(id, content), the id without a leading '__'.
registerPartial(registered, id, content) == Put(registered, partialName(id), content)

\* The sort that ends parseMaterials: the collections, and the items of each.
sortItems(mats) == [n \in 1..Len(mats) |->
                       [k |-> mats[n].k, v |-> [mats[n].v EXCEPT !.items = sortObj(@)]]]

sortMaterials(mats) == sortItems(sortObj(mats))

\* The loop that ends setup: the items of each collection whose key starts
\* with '__' are deleted.
RECURSIVE dropSentinels(_)
dropSentinels(items) ==
    IF items = <<>> THEN <<>>
    ELSE IF StartsWith(items[1].k, <<"_", "_">>) THEN dropSentinels(Tail(items))
    ELSE <<items[1]>> \o dropSentinels(Tail(items))

filterMaterials(mats) == [n \in 1..Len(mats) |->
                            [k |-> mats[n].k, v |-> [mats[n].v EXCEPT !.items = dropSentinels(@)]]]

----------------------------------------------------------------------------
(* The material trees the runs are made over *)

\* The path of a file below the materials root.
PathOf(dirs, base) == MaterialsRoot \o <<"/">> \o Join(Append(dirs, base), "/")

Obj1(k1, v1) == <<[k |-> k1, v |-> v1]>>
Obj2(k1, v1, k2, v2) == <<[k |-> k1, v |-> v1], [k |-> k2, v |-> v2]>>

dC == <<"c">>
dB == <<"b">>
dX == <<"x">>
dM == <<"m">>
dK == <<"k">>
dStructures == <<"s", "t", "r", "u", "c", "t", "u", "r", "e", "s">>
kT == <<"t">>
kTitle == <<"t", "i", "t", "l", "e">>
kOrder == <<"o", "r", "d", "e", "r">>
tagW == <<"w">>

\* s/m/c/b.h : a file of collection c whose key is the name of directory b.
fButtons == File(PathOf(<<dC>>, <<"b", ".", "h">>), Obj1(kT, <<"1">>),
                 <<"{", "{", "t", "}", "}">>, "ok")
\* s/m/c/b/p.h : a file of sub-collection b of collection c.
fPrimary == File(PathOf(<<dC, dB>>, <<"p", ".", "h">>), Obj1(kT, <<"2">>),
                 <<"<", "i", ">", "{", "{", "#", "t", "}", "}", "{", "{", "/", "t", "}", "}">>, "ok")
\* s/m/c/01-a.h and s/m/c/02-a.h : two files of one collection with the id a.
fA1 == File(PathOf(<<dC>>, <<"0", "1", "-", "a", ".", "h">>), Obj1(kT, <<"1">>),
            <<"\n", "{", "{", " ", "t", " ", "}", "}", "\n">>, "ok")
fA2 == File(PathOf(<<dC>>, <<"0", "2", "-", "a", ".", "h">>), Obj1(kT, <<"2">>),
            <<"{", "{", "t", "t", "}", "}">>, "ok")
\* s/m/c/01 a.h : the key 01-a again.
fA1Space == File(PathOf(<<dC>>, <<"0", "1", " ", "a", ".", "h">>), Obj1(kNotes, <<"n">>),
                 <<"a">>, "ok")
\* s/m/x/a.h : the id a in another collection.
fXA == File(PathOf(<<dX>>, <<"a", ".", "h">>), <<>>, <<"x">>, "ok")
\* Sentinels: s/m/c/__h.h, s/m/c/01-__h.h and s/m/c/b/__h.h
fHidden == File(PathOf(<<dC>>, <<"_", "_", "h", ".", "h">>), <<>>, <<"h">>, "ok")
fHidden1 == File(PathOf(<<dC>>, <<"0", "1", "-", "_", "_", "h", ".", "h">>), <<>>, <<"h", "1">>, "ok")
fHiddenSub == File(PathOf(<<dC, dB>>, <<"_", "_", "h", ".", "h">>), <<>>, <<"h", "2">>, "ok")
\* s/m/c/m/f.h : a directory below c that has the name of the root directory.
fDeepM == File(PathOf(<<dC, dM>>, <<"f", ".", "h">>), <<>>, <<"f">>, "ok")
\* s/m/c/b/k/f.h : a file three directories below the root.
fDeepK == File(PathOf(<<dC, dB, dK>>, <<"f", ".", "h">>), <<>>, <<"f">>, "ok")
\* s/m/structures/01-page.html and s/m/structures/02-footer.html
fPage == File(PathOf(<<dStructures>>, <<"0", "1", "-", "p", "a", "g", "e", ".", "h", "t", "m", "l">>),
              Obj2(kOrder, <<"1">>, kTitle, <<"H", "o", "m", "e">>),
              <<"<", "p", ">", "{", "{", "t", "i", "t", "l", "e", "}", "}", "<", "/", "p", ">">>, "ok")
fFooter == File(PathOf(<<dStructures>>, <<"0", "2", "-", "f", "o", "o", "t", "e", "r", ".", "h", "t", "m", "l">>),
                Obj1(kOrder, <<"2">>), <<>>, "ok")
\* Files that cannot be parsed or read.
fMalformed == File(PathOf(<<dC>>, <<"z", ".", "h">>), <<>>, <<>>, "malformed")
fUnreadable == File(PathOf(<<dX>>, <<"y", ".", "h">>), <<>>, <<>>, "unreadable")
\* s/m/c/w.h declares the tag w; s/m/c/u.h uses it as a class.
fWidget == File(PathOf(<<dC>>, <<"w", ".", "h">>), Obj1(kDna, <<tagW>>), <<"w">>, "ok")
fUser == File(PathOf(<<dC>>, <<"u", ".", "h">>), <<>>,
              <<"<", "i", " ", "c", "l", "a", "s", "s", "=", "'", "w", "'", ">">>, "ok")

\* The sets of files a materials directory holds in a run.
Trees == {{fButtons, fPrimary}, {fA1, fA2}, {fA1, fA1Space}, {fA1, fXA},
          {fHidden, fHidden1, fHiddenSub}, {fA1, fDeepM}, {fDeepK, fPrimary},
          {fPage, fFooter}, {fA1, fA2, fMalformed}, {fPrimary, fUnreadable},
          {fWidget, fUser, fMalformed}, {fWidget, fUser, fXA}}

\* The orders the glob (nosort) may list a set of files in.
ListsOf(tree) ==
    {list \in [1..Cardinality(tree) -> tree] :
        \A a, b \in 1..Cardinality(tree) : a # b => list[a] # list[b]}

Lists(trees) == UNION {ListsOf(tree) : tree \in trees}

----------------------------------------------------------------------------
(* module.exports, step by step *)

InitAssembly ==
    /\ pc = "idle"
    /\ options = [onError |-> FALSE, logErrors |-> FALSE]
    /\ files = <<>>
    /\ i = 0
    /\ materials = <<>>
    /\ materialData = <<>>
    /\ partials = <<>>
    /\ rendered = FALSE
    /\ runs = 0

\* module.exports(options) is called: setup merges the options, and
\* parseMaterials resets assembly.materials and lists the files.
Invoke(lists) ==
    /\ pc \in {"idle", "done", "returned"}
    /\ \E list \in lists, onError \in BOOLEAN, logErrors \in BOOLEAN :
          /\ options' = [onError |-> onError, logErrors |-> logErrors]
          /\ files' = list
          /\ pc' = IF list = <<>> THEN "sort" ELSE "stub"
    /\ i' = 1
    /\ materials' = <<>>
    /\ rendered' = FALSE
    /\ runs' = runs + 1
    /\ UNCHANGED <<call, ret, materialData, partials>>

\* One iteration of the first forEach of parseMaterials.
StubStep ==
    /\ pc = "stub"
    /\ materials' = stubOne(materials, files[i], dirsOf(files))
    /\ IF i = Len(files) THEN pc' = "populate" /\ i' = 1
                         ELSE pc' = "stub" /\ i' = i + 1
    /\ UNCHANGED <<call, ret, options, files, materialData, partials, rendered, runs>>

\* One iteration of the second forEach of parseMaterials.
PopulateStep ==
    /\ pc = "populate"
    /\ LET file == files[i]
           dirs == dirsOf(files)
           id == idOf(file, dirs)
       IN  IF populateThrows(materials, file, files, dirs)
           THEN /\ pc' = "threw"
                /\ UNCHANGED <<i, materials, materialData, partials>>
           ELSE /\ materials' = placeLeaf(materials, file, files, dirs)
                /\ materialData' = storeMaterialData(materialData, id, localDataOf(file, files))
                /\ partials' = registerPartial(partials, id, contentOf(file, files, dirs))
                /\ IF i = Len(files) THEN pc' = "sort" /\ i' = 1
                                     ELSE pc' = "populate" /\ i' = i + 1
    /\ UNCHANGED <<call, ret, options, files, rendered, runs>>

\* The end of parseMaterials: the sort.
SortStep ==
    /\ pc = "sort"
    /\ materials' = sortMaterials(materials)
    /\ pc' = "setup"
    /\ UNCHANGED <<call, ret, options, files, i, materialData, partials, rendered, runs>>

\* The end of setup: the '__' items are deleted.
FilterStep ==
    /\ pc = "setup"
    /\ materials' = filterMaterials(materials)
    /\ pc' = "assemble"
    /\ UNCHANGED <<call, ret, options, files, i, materialData, partials, rendered, runs>>

\* assemble(): the views are rendered and written.
Assemble ==
    /\ pc = "assemble"
    /\ rendered' = TRUE
    /\ pc' = "done"
    /\ UNCHANGED <<call, ret, options, files, i, materials, materialData, partials, runs>>

\* handleError(e): the process exits unless onError or logErrors is set.
handleError ==
    /\ pc = "threw"
    /\ pc' = IF options.onError \/ options.logErrors THEN "returned" ELSE "exited"
    /\ UNCHANGED <<call, ret, options, files, i, materials, materialData, partials,
                   rendered, runs>>

Init ==
    /\ call = [op |-> "none"]
    /\ ret = <<>>
    /\ InitAssembly

\* One call of module.exports in a fresh process.
FirstInvoke == runs = 0 /\ Invoke(Lists(Trees))

Next ==
    \/ FirstInvoke
    \/ StubStep
    \/ PopulateStep
    \/ SortStep
    \/ FilterStep
    \/ Assemble
    \/ handleError

Spec == Init /\ [][Next]_vars

----------------------------------------------------------------------------
(* getName as a function of its arguments *)

\* The file paths drawn: a name over these characters, bare or in a directory
\* whose own name has an extension.
NameAlphabet == {"a", "0", ".", "-", " ", "|"}

NamePaths ==
    {prefix \o name : prefix \in {<<>>, <<"d", ".", "x", "/">>},
                      name \in StringsUpTo(NameAlphabet, MaxNameLen) \ {<<>>}}

CallGetName ==
    /\ call.op = "none"
    /\ \E filePath \in NamePaths, preserveNumbers \in BOOLEAN :
          /\ call' = [op |-> "getName", filePath |-> filePath,
                      preserveNumbers |-> preserveNumbers]
          /\ ret' = getName(filePath, preserveNumbers)
    /\ UNCHANGED <<pc, options, files, i, materials, materialData, partials, rendered, runs>>

SpecName == Init /\ [][CallGetName]_vars

\* C10: getName(p, false) is the base name of p without its extension, its
\* white space replaced by hyphens, without its leading run of characters of
\* [0-9.-] and with no other leading character removed; getName(p, true) is
\* that name with nothing stripped.
C10_GetNameStripsOnlyDigitsDotsHyphens ==
    call.op = "getName" =>
        LET name == ReplaceAll(basenameExt(call.filePath, extname(call.filePath)), Spaces, "-")
        IN  ret = IF call.preserveNumbers THEN name
                  ELSE StripLeading(name, Digits \cup {".", "-"})

----------------------------------------------------------------------------
(* The rewrite of a content as a function of its arguments *)

\* A content is a run of these tokens.
Tokens == {<<"{", "{">>, <<"{", "{", "#">>, <<"{", "{", "/">>, <<"}", "}">>, <<"a">>, <<"b">>,
           <<" ", "a", " ">>, <<"n", ".", "a">>}

RECURSIVE Flatten(_)
Flatten(seqs) == IF seqs = <<>> THEN <<>> ELSE seqs[1] \o Flatten(Tail(seqs))

Contents == {Flatten(ts) : ts \in UNION {[1..n -> Tokens] : n \in 0..MaxTokens}}

\* The keys of the local data, in their order, and the ids of the fragment.
KeyLists == {<<<<"a">>>>, <<<<"a">>, <<"b">>>>, <<<<"b">>, <<"a", "b">>>>, <<<<"a", "a">>>>}
Ids == {<<"n">>, <<"c", ".", "a">>, <<>>}

CallRewrite ==
    /\ call.op = "none"
    /\ \E content \in Contents, keys \in KeyLists, id \in Ids :
          /\ call' = [op |-> "rewrite", content |-> content, keys |-> keys, id |-> id]
          /\ ret' = rewrite(content, keys, id)
    /\ UNCHANGED <<pc, options, files, i, materials, materialData, partials, rendered, runs>>

SpecRewrite == Init /\ [][CallRewrite]_vars

\* The number of places of s where sub starts.
Occurrences(s, sub) ==
    Cardinality({n \in 1..(Len(s) - Len(sub) + 1) : SubSeq(s, n, n + Len(sub) - 1) = sub})

Placeholder(name) == <<"{", "{">> \o name \o <<"}", "}">>

\* C3: the rewrite turns every bare placeholder {{key}} of a key of the local
\* data into {{namespace.key}}, none is left bare, and the same rewrite of the
\* rewritten content changes nothing.
C3_NoDoublePrefix ==
    call.op = "rewrite" =>
        /\ rewrite(ret, call.keys, call.id) = ret
        /\ \A n \in 1..Len(call.keys) :
              LET key == call.keys[n]
              IN  /\ Occurrences(ret, Placeholder(key)) = 0
                  /\ Occurrences(ret, Placeholder(namespace(call.id) \o <<".">> \o key))
                        >= Occurrences(call.content, Placeholder(key))

\* A content with a bare placeholder of a key was rewritten.
C3_Witness ==
    /\ call.op = "rewrite"
    /\ \E n \in 1..Len(call.keys) : Occurrences(call.content, Placeholder(call.keys[n])) > 0
    /\ ret # call.content

----------------------------------------------------------------------------
(* parseMaterials as a function of the file list *)

\* The second forEach from file n on: the tree, and whether a file threw.
RECURSIVE populateFrom(_, _, _, _)
populateFrom(mats, list, dirs, n) ==
    IF n > Len(list) THEN [threw |-> FALSE, materials |-> mats]
    ELSE IF populateThrows(mats, list[n], list, dirs) THEN [threw |-> TRUE, materials |-> mats]
    ELSE populateFrom(placeLeaf(mats, list[n], list, dirs), list, dirs, n + 1)

\* parseMaterials over list: whether it threw, and assembly.materials after it.
parseMaterialsOf(list) ==
    LET dirs == dirsOf(list)
        populated == populateFrom(stubAll(<<>>, list, dirs), list, dirs, 1)
    IN  IF populated.threw THEN populated
        ELSE [threw |-> FALSE, materials |-> sortMaterials(populated.materials)]

Range(seq) == {seq[n] : n \in 1..Len(seq)}

\* A tree without the order of its keys: what two trees must share to hold
\* the same collections, sub-collections and entries.
Unordered(mats) ==
    LET entries(items) == {<<e.k, e.v>> : e \in Range(items)}
        group(v) == [name |-> v.name, items |-> entries(v.items)]
        firstLevel(items) ==
            {<<e.k, IF IsGroup(e.v) THEN group(e.v) ELSE e.v>> : e \in Range(items)}
    IN  {<<e.k, [name |-> e.v.name, items |-> firstLevel(e.v.items)]>> : e \in Range(mats)}

\* C1: parseMaterials over any other order of the same files ends the same
\* way (it throws or it does not) and leaves the same tree.
C1_OrderIndependent ==
    pc \in {"setup", "threw"} =>
        \A list \in ListsOf(Range(files)) :
            LET other == parseMaterialsOf(list)
            IN  /\ other.threw = (pc = "threw")
                /\ ~other.threw => Unordered(other.materials) = Unordered(materials)

\* The directory two levels above the file is a collection directory: a
\* directory one level below the materials root.
GrandparentIsCollectionDir(file) ==
    Len(dirParts(file)) = Len(Split(MaterialsRoot, "/")) + 2

\* C5: a file is classified as a member of a sub-collection, by either pass,
\* exactly when its grandparent directory is a collection directory.
C5_SubCollectionIffGrandparentIsCollection ==
    pc \in {"stub", "populate"} =>
        /\ isSubCollectionStub(files[i], dirsOf(files)) <=> GrandparentIsCollectionDir(files[i])
        /\ isSubCollectionOf(files[i], dirsOf(files)) <=> GrandparentIsCollectionDir(files[i])

\* The leaf entries of the tree, at both levels.
Leaves(mats) ==
    LET firstLevel == UNION {Range(e.v.items) : e \in Range(mats)}
    IN  {e.v : e \in {x \in firstLevel : ~IsGroup(x.v)}}
        \cup UNION {{e.v : e \in Range(g.v.items)} : g \in {x \in firstLevel : IsGroup(x.v)}}

IsSentinel(id) == StartsWith(id, <<"_", "_">>)

\* C6: once setup is over, no fragment whose id starts with '__' has an entry
\* in the tree, and each of them is a registered partial.
C6_SentinelsExcluded ==
    pc \in {"assemble", "done"} =>
        \A n \in 1..Len(files) :
            LET id == idOf(files[n], dirsOf(files))
            IN  IsSentinel(id) =>
                    /\ \A l \in Leaves(materials) : l.serial # getSerial(id)
                    /\ Has(partials, partialName(id))

\* <p>{{ns.title}}</p>
TitleParagraph(ns) ==
    <<"<", "p", ">", "{", "{">> \o ns \o <<".">> \o kTitle \o <<"}", "}", "<", "/", "p", ">">>

nPage == <<"p", "a", "g", "e">>
nFooter == <<"f", "o", "o", "t", "e", "r">>

\* C4, as claimed: for structures/01-page.html and structures/02-footer.html
\* the tree has the one collection 'structures' with the items 'page' and
\* 'footer' in that order, and the partial of 'page' has its placeholder
\* namespaced as 'structures-page.title'.
C4_KeysStrippedAndCollectionNamespace ==
    (pc = "done" /\ Range(files) = {fPage, fFooter}) =>
        /\ Keys(materials) = <<dStructures>>
        /\ Keys(Get(materials, dStructures).items) = <<nPage, nFooter>>
        /\ Has(partials, nPage)
        /\ Get(partials, nPage) = TitleParagraph(dStructures \o <<"-">> \o nPage)

\* C4, amended: the items are keyed by the file names with their ordering
\* prefix, '01-page' and '02-footer' in that order, named 'Page' and 'Footer';
\* the partial is registered as 'page' and its placeholder is namespaced by
\* the id alone, 'page.title'.
C4_KeysKeepPrefixAndIdNamespace ==
    (pc = "done" /\ Range(files) = {fPage, fFooter}) =>
        LET items == Get(materials, dStructures).items
        IN  /\ Keys(materials) = <<dStructures>>
            /\ Keys(items) = <<<<"0", "1", "-">> \o nPage, <<"0", "2", "-">> \o nFooter>>
            /\ items[1].v.name = <<"P", "a", "g", "e">>
            /\ items[2].v.name = <<"F", "o", "o", "t", "e", "r">>
            /\ Keys(partials) \in {<<nPage, nFooter>>, <<nFooter, nPage>>}
            /\ Get(partials, nPage) = TitleParagraph(nPage)

\* The run over the two files, the footer listed first, is over.
C4_Witness == pc = "done" /\ files = <<fFooter, fPage>>

SomeBad(list) == \E n \in 1..Len(list) : list[n].state # "ok"

\* C8, as claimed: once the front matter of a file failed to be read or
\* parsed, the tree in memory holds nothing and no view was rendered.
C8_NoTreeAfterFailure ==
    (SomeBad(files) /\ pc \in {"threw", "returned", "exited"}) =>
        /\ materials = <<>>
        /\ ~rendered

\* C8, amended: a run over a file that cannot be read or parsed stops at the
\* first file of the population pass, whatever onError and logErrors are: no
\* leaf entry is attached, nothing is registered and no view is rendered, and
\* the tree in memory is left holding the stubs of the stub pass.
C8_OnlyStubsAfterFailure ==
    (SomeBad(files) /\ pc \notin {"idle", "stub"}) =>
        /\ pc \in {"populate", "threw", "returned", "exited"}
        /\ pc = "populate" => i = 1
        /\ ~rendered
        /\ materials = stubAll(<<>>, files, dirsOf(files))
        /\ Leaves(materials) = {}
        /\ materialData = <<>>
        /\ partials = <<>>

\* handleError returned from a run that failed on a file, the stubs in memory.
C8_Witness ==
    /\ pc = "returned"
    /\ SomeBad(files)
    /\ options.onError
    /\ materials # <<>>

\* The entries of the tree: each leaf with the place it is at.
Entries(mats) ==
    UNION {UNION {IF IsGroup(e.v)
                  THEN {[at |-> <<t.k, e.k, x.k>>, leaf |-> x.v] : x \in Range(e.v.items)}
                  ELSE {[at |-> <<t.k, e.k>>, leaf |-> e.v]}
                  : e \in Range(t.v.items)}
           : t \in Range(mats)}

\* The last file of the run whose id gives the name under f.
LastWith(f(_), name) ==
    files[CHOOSE n \in 1..Len(files) :
              /\ f(idOf(files[n], dirsOf(files))) = name
              /\ \A m \in (n + 1)..Len(files) : f(idOf(files[m], dirsOf(files))) # name]

SameIdPairs ==
    {<<a, b>> \in (1..Len(files)) \X (1..Len(files)) :
        a < b /\ idOf(files[a], dirsOf(files)) = idOf(files[b], dirsOf(files))}

----------------------------------------------------------------------------
(* module.exports called again and again in one process *)

\* The file sets of the successive runs: files come and go between the runs.
RerunTrees == {{fA1, fA2}, {fXA}, {}, {fPrimary, fUnreadable}}

AnyInvoke == runs < MaxRuns /\ Invoke(Lists(RerunTrees))

NextRuns ==
    \/ AnyInvoke
    \/ StubStep
    \/ PopulateStep
    \/ SortStep
    \/ FilterStep
    \/ Assemble
    \/ handleError

SpecRuns == Init /\ [][NextRuns]_vars

\* C7: after a run, whatever runs came before it, every entry of the tree and
\* every entry of assembly.materialData is the entry of a file of that run.
C7_OnlyLatestRun ==
    pc = "done" =>
        LET ids == {idOf(files[n], dirsOf(files)) : n \in 1..Len(files)}
        IN  /\ \A e \in Entries(materials) : \E id \in ids : e.leaf.serial = getSerial(id)
            /\ \A k \in KeySet(materialData) : \E id \in ids : k = namespace(id)

----------------------------------------------------------------------------
(* dna.scan as a function of the texts it reads *)

tagV == <<"v">>

\* An opening tag: its id, its data-dna and its class tokens, <<>> for an
\* attribute it does not have.
ElementSpecs ==
    {[id |-> id, dna |-> cmp, classes |-> classes] :
        id \in {<<>>, tagW, tagV}, cmp \in {<<>>, tagW}, classes \in {<<>>, <<tagW>>, <<tagV, tagW>>}}

Quoted(attr, value) == <<" ">> \o attr \o <<"\"">> \o value \o <<"\"">>

\* The text of the tag: <i id="w" data-dna="w" class="v w">
ElementText(e) ==
    <<"<", "i">>
    \o (IF e.id # <<>> THEN Quoted(<<"i", "d", "=">>, e.id) ELSE <<>>)
    \o (IF e.dna # <<>> THEN Quoted(DnaAttr, e.dna) ELSE <<>>)
    \o (IF e.classes # <<>> THEN Quoted(ClassAttr, Join(e.classes, <<" ">>)) ELSE <<>>)
    \o <<">">>

ElementLists == UNION {[1..n -> ElementSpecs] : n \in 0..MaxElements}

PropLists == {<<tagW>>, <<tagV>>, <<tagW, tagV>>}

\* The fragment A that declares the tags, and the other file B of the text.
fDeclares(props) == File(PathOf(<<dC>>, <<"w", ".", "h">>), Obj1(kDna, props), <<"w">>, "ok")
fOther(elements) ==
    File(PathOf(<<dC>>, <<"u", ".", "h">>), <<>>,
         Flatten([n \in 1..Len(elements) |-> ElementText(elements[n])]), "ok")

CallScan ==
    /\ call.op = "none"
    /\ \E props \in PropLists, elements \in ElementLists :
          LET A == fDeclares(props)
              B == fOther(elements)
          IN  /\ call' = [op |-> "scan", props |-> props, elements |-> elements]
              /\ ret' = scan(A, <<A, B>>, omit(A.data, kNotes))
    /\ UNCHANGED <<pc, options, files, i, materials, materialData, partials, rendered, runs>>

SpecScan == Init /\ [][CallScan]_vars

\* The tags the elements match of props, each with the prefix of its origin.
ExpectedTags(elements, props) ==
    UNION {{<<"#">> \o e.id : x \in {1 : y \in {e.id} \cap Range(props)}}
           \cup {DnaAttr \o e.dna : x \in {1 : y \in {e.dna} \cap Range(props)}}
           \cup {<<".">> \o c : c \in Range(e.classes) \cap Range(props)}
           : e \in Range(elements)}

\* C2: the other file B is in the dependents of A exactly when a tag of B has
\* an id, a data-dna or a class token among the tags A declares, and the tags
\* recorded for B are those matches, '#', 'data-dna=' or '.' before each, none
\* twice.
C2_DependentsExactlyTheMatches ==
    call.op = "scan" =>
        LET helix == Get(ret, kHelix)
            expected == ExpectedTags(call.elements, call.props)
        IN  IF expected = {}
            THEN ~Has(helix, kDependents)
            ELSE /\ Has(helix, kDependents)
                 /\ Len(Get(helix, kDependents)) = 1
                 /\ Get(helix, kDependents)[1].file = <<"u", ".", "h">>
                 /\ Range(Get(helix, kDependents)[1].tags) = expected
                 /\ Len(Get(helix, kDependents)[1].tags) = Cardinality(expected)

----------------------------------------------------------------------------
(* Runs over directories whose names getName changes *)

\* s/m/a b/c/f.h, s/m/c.d/b/f.h and s/m/01-c/02-b/f.h : a sub-collection of
\* a collection with a space, a dot or an ordering prefix in its name.
fSpaced == File(PathOf(<<<<"a", " ", "b">>, dC>>, <<"f", ".", "h">>), <<>>, <<"f">>, "ok")
fDotted == File(PathOf(<<<<"c", ".", "d">>, dB>>, <<"f", ".", "h">>), <<>>, <<"f">>, "ok")
fOrdered == File(PathOf(<<<<"0", "1", "-", "c">>, <<"0", "2", "-", "b">>>>, <<"f", ".", "h">>),
                 Obj1(kT, <<"1">>), <<"{", "{", "t", "}", "}">>, "ok")

DirTrees == {{fSpaced}, {fDotted}, {fOrdered}, {fOrdered, fA1}, {fSpaced, fA1},
             {fDotted, fXA}, {fOrdered, fSpaced}}

DirInvoke == runs = 0 /\ Invoke(Lists(DirTrees))

NextDirs ==
    \/ DirInvoke
    \/ StubStep
    \/ PopulateStep
    \/ SortStep
    \/ FilterStep
    \/ Assemble
    \/ handleError

SpecDirs == Init /\ [][NextDirs]_vars

\* The group the second forEach writes the leaf of the file into is there,
\* with its items.
GroupExists(mats, file, dirs) ==
    LET collection == getName(collectionDir(file), TRUE)
        parent == parentDir(file)
    IN  IF isSubCollectionOf(file, dirs)
        THEN /\ Has(mats, parent)
             /\ Has(Get(mats, parent).items, collection)
             /\ IsGroup(Get(Get(mats, parent).items, collection))
        ELSE Has(mats, collection) /\ IsGroup(Get(mats, collection))

\* C11: no leaf is attached while the stub pass runs; at every step of the
\* population pass the collection, or the sub-collection inside its parent,
\* that the file is written into exists with its items; and the pass does not
\* throw when every file can be read and parsed.
C11_StubBeforePopulate ==
    /\ pc = "stub" => Entries(materials) = {}
    /\ pc = "populate" => GroupExists(materials, files[i], dirsOf(files))
    /\ pc = "threw" => SomeBad(files)

----------------------------------------------------------------------------
(* dna.scan of every file of a list, as parseMaterials calls it *)

\* The names of the files of collection c.
HelixNames == <<"a", "b", "d", "e", "g">>
HelixClasses == ElementText([id |-> <<>>, dna |-> <<>>, classes |-> <<tagV, tagW>>])
HelixAttr == ElementText([id |-> <<>>, dna |-> tagW, classes |-> <<>>])

\* The front matter and the text of a file: a file that declares nothing
\* and holds no tag, one that holds class tokens, one that holds a data-dna
\* attribute, and files that declare a tag.
HelixKinds == {<<<<>>, <<"x">>>>, <<<<>>, HelixClasses>>, <<<<>>, HelixAttr>>,
               <<Obj1(kDna, <<tagW>>), <<"x">>>>, <<Obj1(kDna, <<tagW>>), HelixClasses>>,
               <<Obj1(kDna, <<tagV>>), HelixAttr>>}

HelixLists ==
    UNION {{[n \in 1..len |-> File(PathOf(<<dC>>, <<HelixNames[n], ".", "h">>),
                                   J[n][1], J[n][2], "ok")]
            : J \in [1..len -> HelixKinds]}
           : len \in 1..MaxFiles}

\* The local data dna.scan returns for the file, and the lines it logs.
CallScanEach ==
    /\ call.op = "none"
    /\ \E list \in HelixLists :
          /\ call' = [op |-> "scanEach", files |-> list]
          /\ ret' = [n \in 1..Len(list) |->
                       LET data == omit(list[n].data, kNotes)
                       IN  [data |-> scan(list[n], list, data),
                            lines |-> IF scanLogs(list[n], list, data) THEN 1 ELSE 0]]
    /\ UNCHANGED <<pc, options, files, i, materials, materialData, partials, rendered, runs>>

SpecHelix == Init /\ [][CallScanEach]_vars

\* What the two passes find for the n-th file of the call.
FoundDependents(n) ==
    LET file == call.files[n]
    IN  IF Has(file.data, kDna)
        THEN dependentsOf(without(call.files, file), Get(file.data, kDna))
        ELSE <<>>

FoundDependency(n) ==
    dependencyOf(without(call.files, call.files[n]), readFileSync(call.files[n]))

\* The keys of the helix and the log line follow what the passes found.
HelixKeysAndLog(n) ==
    LET helix == Get(ret[n].data, kHelix)
    IN  /\ Has(helix, kDependents) <=> FoundDependents(n) # <<>>
        /\ Has(helix, kDependents) => Get(helix, kDependents) = FoundDependents(n)
        /\ Has(helix, kDependency) <=> FoundDependency(n) # <<>>
        /\ Has(helix, kDependency) => Get(helix, kDependency) = FoundDependency(n)
        /\ KeySet(helix) \subseteq {kDependents, kDependency}
        /\ ret[n].lines = IF FoundDependents(n) # <<>> \/ FoundDependency(n) # <<>>
                          THEN 1 ELSE 0

\* C12, as claimed: the data returned for a fragment has the helix only if
\* one of the two passes found a match; the key of a pass is in it exactly
\* when its list is not empty; one line is logged when a list is not empty
\* and none otherwise.
C12_HelixOnlyOnMatch ==
    call.op = "scanEach" =>
        \A n \in 1..Len(ret) :
            /\ Has(ret[n].data, kHelix)
                   => (FoundDependents(n) # <<>> \/ FoundDependency(n) # <<>>)
            /\ Has(ret[n].data, kHelix) => HelixKeysAndLog(n)

\* C12, amended: the data returned for a fragment always has the helix, an
\* empty object when neither pass found a match; the key of a pass is in it
\* exactly when its list is not empty; one line is logged when a list is not
\* empty and none otherwise.
C12_HelixAlwaysKeysOnMatch ==
    call.op = "scanEach" =>
        \A n \in 1..Len(ret) :
            /\ Has(ret[n].data, kHelix)
            /\ HelixKeysAndLog(n)
            /\ (Get(ret[n].data, kHelix) = <<>>)
                   <=> (FoundDependents(n) = <<>> /\ FoundDependency(n) = <<>>)

\* A call that returned a fragment with an empty helix and no line, and one
\* with dependents and a line.
C12_Witness ==
    /\ call.op = "scanEach"
    /\ \E n \in 1..Len(ret) : Get(ret[n].data, kHelix) = <<>> /\ ret[n].lines = 0
    /\ \E n \in 1..Len(ret) : Has(Get(ret[n].data, kHelix), kDependents) /\ ret[n].lines = 1

\* The tag lists the n-th fragment's helix records under key for the file
\* of that base name.
ListedTags(n, key, name) ==
    LET helix == Get(ret[n].data, kHelix)
    IN  IF Has(helix, key)
        THEN {e.tags : e \in {x \in Range(Get(helix, key)) : x.file = name}}
        ELSE {}

\* C14: for distinct fragments A and B of one list, A declaring dna tags, B
\* is in the dependents of A with the tags m exactly when A is in the
\* dependency of B with the tags m, and no fragment is in its own dependents
\* or dependency.
C14_DependentsMirrorDependency ==
    call.op = "scanEach" =>
        /\ \A a, b \in 1..Len(ret) :
              (a # b /\ Has(call.files[a].data, kDna)) =>
                  ListedTags(a, kDependents, basename(call.files[b].path))
                      = ListedTags(b, kDependency, basename(call.files[a].path))
        /\ \A n \in 1..Len(ret) :
              /\ ListedTags(n, kDependents, basename(call.files[n].path)) = {}
              /\ ListedTags(n, kDependency, basename(call.files[n].path)) = {}

\* A fragment that declares a tag and holds it too, and another fragment
\* that is among its dependents.
C14_Witness ==
    /\ call.op = "scanEach"
    /\ \E a, b \in 1..Len(ret) :
          /\ a # b
          /\ Has(call.files[a].data, kDna)
          /\ scanFile(readFileSync(call.files[a]), Get(call.files[a].data, kDna)) # <<>>
          /\ ListedTags(a, kDependents, basename(call.files[b].path)) # {}
          /\ ListedTags(b, kDependency, basename(call.files[a].path)) # {}

----------------------------------------------------------------------------
(* The rewrite of a content made of placeholders and text *)

\* A part of a content: the text x, or a placeholder with its opening and
\* the name between the braces.
FrameOpens == {<<"{", "{">>, <<"{", "{", "#">>, <<"{", "{", "/">>}
FrameNames == {<<"a">>, <<"a", "a">>, <<"b">>, <<" ", "a", " ">>}
FrameParts == {[open |-> <<>>, name |-> <<"x">>]}
              \cup {[open |-> o, name |-> nm] : o \in FrameOpens, nm \in FrameNames}

PartText(part) ==
    IF part.open = <<>> THEN part.name ELSE part.open \o part.name \o <<"}", "}">>

FrameContents == UNION {[1..n -> FrameParts] : n \in 0..MaxParts}
FrameKeyLists == {<<<<"a">>>>, <<<<"b">>, <<"a">>>>, <<<<"a", "a">>>>}

CallFrame ==
    /\ call.op = "none"
    /\ \E parts \in FrameContents, keys \in FrameKeyLists, id \in Ids :
          /\ call' = [op |-> "frame", parts |-> parts, keys |-> keys, id |-> id]
          /\ ret' = rewrite(Flatten([n \in 1..Len(parts) |-> PartText(parts[n])]), keys, id)
    /\ UNCHANGED <<pc, options, files, i, materials, materialData, partials, rendered, runs>>

SpecFrame == Init /\ [][CallFrame]_vars

\* The part as the claim has it after the rewrite: namespaced when it is a
\* placeholder whose name is a key, itself otherwise.
FramePart(part, keys, id) ==
    IF part.open # <<>> /\ stripSpaces(part.name) \in Range(keys)
    THEN part.open \o namespace(id) \o <<".">> \o stripSpaces(part.name) \o <<"}", "}">>
    ELSE PartText(part)

\* C15: a placeholder, plain, block open or block close, is rewritten to
\* its namespaced form exactly when its name is a key of the local data;
\* every other placeholder, such as one whose name repeats the last character
\* of a key, and all other text is left as it is.
C15_OnlyExactKeysRewritten ==
    call.op = "frame" =>
        ret = Flatten([n \in 1..Len(call.parts) |-> FramePart(call.parts[n], call.keys, call.id)])

----------------------------------------------------------------------------
(* The material helper *)

\* The end of one \d+[\-\.] that starts at p, 0 when none starts there.
GroupEnd(s, p) ==
    IF p <= Len(s) /\ s[p] \in Digits
    THEN LET q == CHOOSE q \in (p + 1)..(Len(s) + 1) :
                      /\ \A k \in p..(q - 1) : s[k] \in Digits
                      /\ q <= Len(s) => s[q] \notin Digits
         IN  IF q <= Len(s) /\ s[q] \in {"-", "."} THEN q ELSE 0
    ELSE 0

\* The end of the longest run of such groups that starts at p.
RECURSIVE GroupsEnd(_, _)
GroupsEnd(s, p) ==
    IF GroupEnd(s, p) = 0 THEN p - 1 ELSE GroupsEnd(s, GroupEnd(s, p) + 1)

\* name.replace(/(\d+[\-\.])+/, '') : the leftmost match taken out, wherever
\* in the name it is.
stripNumbers(name) ==
    IF \E p \in 1..Len(name) : GroupEnd(name, p) # 0
    THEN LET p == CHOOSE p \in 1..Len(name) :
                      /\ GroupEnd(name, p) # 0
                      /\ \A m \in 1..(p - 1) : GroupEnd(name, m) = 0
         IN  Take(name, p - 1) \o Drop(name, GroupsEnd(name, p))
    ELSE name

\* The helper: the key it looks up, and the template it finds; compiling a
\* partial that is not registered throws.
materialKey(name) == stripNumbers(stripNumbers(name))

material(registered, name) ==
    IF Has(registered, materialKey(name))
    THEN [threw |-> FALSE, template |-> Get(registered, materialKey(name))]
    ELSE [threw |-> TRUE]

\* The file names drawn, and the file of that name in collection c or in
\* its sub-collection 01-b.
HelperAlphabet == {"h", "1", "-", "_", "."}
HelperNames == (StringsUpTo(HelperAlphabet, MaxNameLen) \ {<<>>})
               \cup {<<"h", "1", "-", "t">>, <<"0", "1", "-", "h">>, <<"_", "_", "h">>}
HelperDirs == {<<dC>>, <<dC, <<"0", "1", "-", "b">>>>}

CallMaterial ==
    /\ call.op = "none"
    /\ \E name \in HelperNames, in \in HelperDirs :
          LET file == File(PathOf(in, name \o <<".", "h">>), <<>>, <<"x">>, "ok")
              list == <<file>>
              id == idOf(file, dirsOf(list))
              registered == registerPartial(<<>>, id, contentOf(file, list, dirsOf(list)))
          IN  /\ call' = [op |-> "material", file |-> file]
              /\ ret' = [byId |-> material(registered, id),
                         byKey |-> material(registered, keyOf(file, dirsOf(list)))]
    /\ UNCHANGED <<pc, options, files, i, materials, materialData, partials, rendered, runs>>

SpecMaterial == Init /\ [][CallMaterial]_vars

\* C13: the helper called with the id of a registered fragment, or with its
\* key, finds the partial registered for the fragment.
C13_HelperFindsPartial ==
    call.op = "material" =>
        LET found == [threw |-> FALSE,
                      template |-> contentOf(call.file, <<call.file>>, dirsOf(<<call.file>>))]
        IN  ret.byId = found /\ ret.byKey = found

====
